---- MODULE Spec2Model ----
(***************************************************************************)
(* Model of the VLHoldings reporting API: the finance summary endpoint,    *)
(* the monthly finance history endpoint and the read-only study cards      *)
(* endpoint, over the study-card table they read.                          *)
(*                                                                         *)
(* Conventions.  A nullable value (a column that may be NULL, a header or  *)
(* query parameter that may be absent, a parseInt result that may be NaN)  *)
(* is a sequence of length at most one: None is <<>>, Some(v) is <<v>>.    *)
(* Header and query-parameter texts are sequences of one-character         *)
(* strings, so that startsWith, slice and parseInt work on characters.     *)
(* A Date is a record [valid, day, ms]: day is the proleptic Gregorian     *)
(* day number of the local calendar day and ms the millisecond within it.  *)
(***************************************************************************)
EXTENDS Integers, Sequences, FiniteSets, TLC

(***************************************************************************)
(* Bounds of the model                                                     *)
(***************************************************************************)
MaxCards == 2

MaxWrites == 1

(***************************************************************************)
(* Nullable values                                                         *)
(***************************************************************************)
None == <<>>

Some(v) == <<v>>

Nullish(x, d) == IF x = None THEN d ELSE x[1]

(***************************************************************************)
(* JavaScript Date arithmetic (local time)                                 *)
(***************************************************************************)
IsLeap(y) == (y % 4 = 0 /\ y % 100 # 0) \/ y % 400 = 0

DaysBeforeMonth(y, m) ==
    LET cum == <<0, 31, 59, 90, 120, 151, 181, 212, 243, 273, 304, 334>>
    IN  cum[m + 1] + (IF m > 1 /\ IsLeap(y) THEN 1 ELSE 0)

DaysBeforeYear(y) ==
    365 * y + ((y - 1) \div 4) - ((y - 1) \div 100) + ((y - 1) \div 400)

InvalidDate == [valid |-> FALSE, day |-> 0, ms |-> 0]

\* new Date(year, monthIndex, day, hours, minutes, seconds): fields outside
\* their range roll over into the next larger field; NaN gives Invalid Date.
MakeDate(year, monthIndex, day, hours, minutes, seconds) ==
    IF year = None \/ monthIndex = None
    THEN InvalidDate
    ELSE LET ym == year[1] * 12 + monthIndex[1]
             y  == ym \div 12
             m  == ym % 12
         IN  [valid |-> TRUE,
              day   |-> DaysBeforeYear(y) + DaysBeforeMonth(y, m) + (day - 1),
              ms    |-> ((hours * 60 + minutes) * 60 + seconds) * 1000]

\* date comparison as the record store evaluates gte / lte on createdAt
DateLE(a, b) == a.day < b.day \/ (a.day = b.day /\ a.ms <= b.ms)

\* calendar year, month (1-12) and day of the month of a day number
YearOfDay(d) ==
    CHOOSE y \in (d \div 366)..((d \div 365) + 1) :
        DaysBeforeYear(y) <= d /\ d < DaysBeforeYear(y + 1)

MonthOfDay(d) ==
    LET y == YearOfDay(d)
        r == d - DaysBeforeYear(y)
    IN  CHOOSE m \in 1..12 :
            /\ DaysBeforeMonth(y, m - 1) <= r
            /\ (m = 12 \/ r < DaysBeforeMonth(y, m))

\* date.toISOString().split("T")[0]: the calendar date, in UTC, of a local
\* timestamp taken on a server whose clock is offset minutes ahead of UTC
IsoDate(date, offset) ==
    LET d == date.day + ((date.ms - offset * 60000) \div 86400000)
        y == YearOfDay(d)
        m == MonthOfDay(d)
    IN  <<y, m, d - DaysBeforeYear(y) - DaysBeforeMonth(y, m - 1) + 1>>

(***************************************************************************)
(* Text helpers: String.startsWith, String.slice, parseInt, Math.min       *)
(***************************************************************************)
Digits == <<"0", "1", "2", "3", "4", "5", "6", "7", "8", "9">>

IsDigit(c) == \E i \in 1..10 : Digits[i] = c

DigitVal(c) == (CHOOSE i \in 1..10 : Digits[i] = c) - 1

StartsWith(s, p) == Len(s) >= Len(p) /\ SubSeq(s, 1, Len(p)) = p

Slice(s, n) == SubSeq(s, n + 1, Len(s))

RECURSIVE ParseDigits(_, _, _)
\* value of the longest digit prefix of s from position i on; None if empty
ParseDigits(s, i, acc) ==
    IF i <= Len(s) /\ IsDigit(s[i])
    THEN ParseDigits(s, i + 1, Some(Nullish(acc, 0) * 10 + DigitVal(s[i])))
    ELSE acc

\* parseInt(text): optional sign, then the longest run of decimal digits;
\* NaN (None) when no digit follows.
ParseInt(s) ==
    LET neg  == Len(s) > 0 /\ s[1] = "-"
        from == IF Len(s) > 0 /\ (s[1] = "-" \/ s[1] = "+") THEN 2 ELSE 1
        mag  == ParseDigits(s, from, None)
    IN  IF mag = None THEN None
        ELSE IF neg THEN Some(0 - mag[1]) ELSE mag

RECURSIVE StringOf(_)
\* String(n) for a non-negative integer: its decimal digits
StringOf(n) ==
    IF n < 10 THEN <<Digits[n + 1]>>
    ELSE Append(StringOf(n \div 10), Digits[(n % 10) + 1])

\* a minimum that returns its first argument
MathMinFirst(a, b) == a

\* Math.min(a, b) with b a number: NaN if a is NaN
MathMin(a, b) == IF a = None THEN None ELSE Some(IF a[1] < b THEN a[1] ELSE b)

\* a quarter number that rounds down
CeilDiv3Floor(month) == month \div 3

\* Math.ceil(month / 3)
CeilDiv3(month) == 0 - ((0 - month) \div 3)

(***************************************************************************)
(* The study-card table and the rows the model inserts into it             *)
(***************************************************************************)
\* timestamps of the rows: day of the month and millisecond of the day
Stamp(year, month, dayOfMonth, ms) ==
    [valid |-> TRUE,
     day   |-> DaysBeforeYear(year) + DaysBeforeMonth(year, month - 1)
                 + (dayOfMonth - 1),
     ms    |-> ms]

\* the rows that can be inserted into the table
CardPool ==
    { [id |-> 1, title |-> <<"T", "a", "x">>, description |-> <<>>,
       category |-> None, estimatedCost |-> Some(100),
       isCompleted |-> FALSE, createdAt |-> Stamp(2024, 3, 15, 43200000)],
      [id |-> 2, title |-> <<"a", "b">>, description |-> <<"t">>,
       category |-> None, estimatedCost |-> Some(50),
       isCompleted |-> TRUE, createdAt |-> Stamp(2024, 3, 20, 0)],
      [id |-> 3, title |-> <<"b">>, description |-> <<"A">>,
       category |-> Some("Books"), estimatedCost |-> None,
       isCompleted |-> TRUE, createdAt |-> Stamp(2024, 3, 31, 86399500)],
      [id |-> 4, title |-> <<"t", "A">>, description |-> <<"x">>,
       category |-> Some(""), estimatedCost |-> Some(30),
       isCompleted |-> FALSE, createdAt |-> Stamp(2023, 12, 31, 86399000)] }

RECURSIVE RowsOf(_)
\* the rows of a set of cards as a result list, in primary-key order
RowsOf(S) ==
    IF S = {} THEN <<>>
    ELSE LET c == CHOOSE x \in S : \A z \in S : x.id <= z.id
         IN  <<c>> \o RowsOf(S \ {c})

(***************************************************************************)
(* Aggregator (summary lines 72-129, history lines 240-261)                *)
(***************************************************************************)
RECURSIVE SumCostAbsentNegative(_)
\* a reduce whose fallback for an absent cost is -1 instead of 0
SumCostAbsentNegative(cards) ==
    IF cards = <<>> THEN 0
    ELSE SumCostAbsentNegative(SubSeq(cards, 1, Len(cards) - 1))
           + Nullish(cards[Len(cards)].estimatedCost, 0 - 1)

RECURSIVE SumCost(_)
\* cards.reduce((sum, card) => sum + (card.estimatedCost ?? 0), 0)
SumCost(cards) ==
    IF cards = <<>> THEN 0
    ELSE SumCost(SubSeq(cards, 1, Len(cards) - 1))
           + Nullish(cards[Len(cards)].estimatedCost, 0)

\* a filter with the test negated: it keeps the open rows
CompletedOfOpen(cards) == SelectSeq(cards, LAMBDA c : ~c.isCompleted)

\* a filter that keeps every row
CompletedOfKeepsAll(cards) == cards

\* periodCards.filter((c) => c.isCompleted)
CompletedOf(cards) == SelectSeq(cards, LAMBDA c : c.isCompleted)

\* a category loop that stores the row's cost instead of accumulating it
MapAddOverwrites(map, card) ==
    LET cat == Nullish(card.category, "Uncategorized")
        add == Nullish(card.estimatedCost, 0)
    IN  IF \E i \in 1..Len(map) : map[i].name = cat
        THEN [i \in 1..Len(map) |->
                 IF map[i].name = cat
                 THEN [name |-> cat, amount |-> add,
                       count |-> map[i].count + 1]
                 ELSE map[i]]
        ELSE Append(map, [name |-> cat, amount |-> add, count |-> 1])

\* one iteration of the category loop: get-or-create, accumulate, set
MapAdd(map, card) ==
    LET cat == Nullish(card.category, "Uncategorized")
        add == Nullish(card.estimatedCost, 0)
    IN  IF \E i \in 1..Len(map) : map[i].name = cat
        THEN [i \in 1..Len(map) |->
                 IF map[i].name = cat
                 THEN [name |-> cat, amount |-> map[i].amount + add,
                       count |-> map[i].count + 1]
                 ELSE map[i]]
        ELSE Append(map, [name |-> cat, amount |-> add, count |-> 1])

RECURSIVE CategoryMap(_)
\* the Map built by the loop, as the list Array.from(map.entries()) yields
CategoryMap(cards) ==
    IF cards = <<>> THEN <<>>
    ELSE MapAdd(CategoryMap(SubSeq(cards, 1, Len(cards) - 1)),
                cards[Len(cards)])

\* Math.round((totalCompleted / totalItems) * 100), 0 for an empty table
CompletionRate(totalItems, totalCompleted) ==
    IF totalItems > 0
    THEN (200 * totalCompleted + totalItems) \div (2 * totalItems)
    ELSE 0

(***************************************************************************)
(* Period Resolver (summary lines 43-57) and the history window (226-228)  *)
(***************************************************************************)
\* a resolver that forces the month into 1..12 before the date arithmetic
PeriodBoundsClamped(periodType, year, month) ==
    LET m == IF month = None THEN 1
             ELSE IF month[1] < 1 THEN 1
             ELSE IF month[1] > 12 THEN 12 ELSE month[1]
    IN  IF periodType = "yearly"
        THEN [start |-> MakeDate(year, Some(0), 1, 0, 0, 0),
              end   |-> MakeDate(year, Some(11), 31, 23, 59, 59)]
        ELSE IF month = None
        THEN [start |-> InvalidDate, end |-> InvalidDate]
        ELSE IF periodType = "quarterly"
        THEN [start |-> MakeDate(year, Some((CeilDiv3(m) - 1) * 3), 1, 0, 0, 0),
              end   |-> MakeDate(year, Some(CeilDiv3(m) * 3), 0, 23, 59, 59)]
        ELSE [start |-> MakeDate(year, Some(m - 1), 1, 0, 0, 0),
              end   |-> MakeDate(year, Some(m), 0, 23, 59, 59)]

PeriodBounds(periodType, year, month) ==
    IF periodType = "yearly"
    THEN [start |-> MakeDate(year, Some(0), 1, 0, 0, 0),
          end   |-> MakeDate(year, Some(11), 31, 23, 59, 59)]
    ELSE IF month = None
    THEN [start |-> InvalidDate, end |-> InvalidDate]
    ELSE IF periodType = "quarterly"
    THEN LET quarter == CeilDiv3(month[1])
         IN  [start |-> MakeDate(year, Some((quarter - 1) * 3), 1, 0, 0, 0),
              end   |-> MakeDate(year, Some(quarter * 3), 0, 23, 59, 59)]
    ELSE [start |-> MakeDate(year, Some(month[1] - 1), 1, 0, 0, 0),
          end   |-> MakeDate(year, Some(month[1]), 0, 23, 59, 59)]

\* a window that wraps the month index inside the clock's year
HistoryBoundsSameYear(clock, i) ==
    LET targetMonth == (clock[2] - i) % 12
    IN  [start |-> MakeDate(Some(clock[1]), Some(targetMonth), 1, 0, 0, 0),
         end   |-> MakeDate(Some(clock[1]), Some(targetMonth + 1), 0,
                            23, 59, 59)]

\* the month i months before the clock's month (clock is <<getFullYear(),
\* getMonth()>>): targetDate, then its first and last instants
HistoryBounds(clock, i) ==
    LET targetDate  == MakeDate(Some(clock[1]), Some(clock[2] - i), 1, 0, 0, 0)
        targetYear  == YearOfDay(targetDate.day)
        targetMonth == MonthOfDay(targetDate.day) - 1
    IN  [start |-> MakeDate(Some(targetYear), Some(targetMonth), 1, 0, 0, 0),
         end   |-> MakeDate(Some(targetYear), Some(targetMonth + 1), 0,
                            23, 59, 59)]

(***************************************************************************)
(* State                                                                   *)
(***************************************************************************)
VARIABLES
    apiKey,     \* env.PRESIDENT_API_KEY: None, or Some(text)
    tz,         \* minutes the server's local time is ahead of UTC
    builder,    \* which .limit(n) the query builder of the build has: one
                \* that emits LIMIT n when n is truthy (not 0, not NaN), or
                \* one that emits it when n >= 0
    table,      \* the rows of the study-card table
    pc,         \* where the request in progress stands ("idle": none,
                \* "done": answered, response not yet delivered)
    req,        \* the request in progress
    loc,        \* the handler's local variables
    queries,    \* the record-store reads the request has issued so far,
                \* each period read with the rows it returned, that of
                \* the summary with the number of writes applied before
    resp,       \* the response to the request (status 0: none yet)
    writes,     \* the number of writes the record store has applied
    client      \* what a client that repeats its request keeps: the first
                \* request and its response (NoClient: no such client)

vars ==
    <<apiKey, tz, builder, table, pc, req, loc, queries, resp, writes, client>>

env == <<apiKey, tz, builder>>

BearerPrefix == <<"B", "e", "a", "r", "e", "r", " ">>

GoodHeader == Some(BearerPrefix \o <<"k", "1">>)

\* the configured keys and the Authorization headers that requests carry
ApiKeys == { None, Some(<<>>), Some(<<"k", "1">>) }

AuthHeaders ==
    { None,
      GoodHeader,
      Some(BearerPrefix \o <<"k", "1", "x">>),
      Some(<<"b", "e", "a", "r", "e", "r", " ", "k", "1">>) }

\* what new Date() can read: <<getFullYear(), getMonth()>>
Clocks == { <<2024, 0>>, <<2024, 2>>, <<2024, 11>> }

\* the requests the model sends: every query string under the matching
\* header, and the first query string under every header
RequestsOf(params, first) ==
    { <<GoodHeader, p>> : p \in params } \cup { <<h, first>> : h \in AuthHeaders }

ServerOffsets == { 0, 420 }

\* the deployments the model runs: <<server offset, builder>>.  The offset
\* shows only in the dates of summary and history responses and the
\* builder only in the cards query, so each offset comes with one builder.
Deployments == { <<0, "truthy">>, <<420, "nonNegative">> }

NoResp == [status |-> 0]

NoLoc == [none |-> TRUE]

NoClient == [none |-> TRUE]

Unauthorized ==
    [status |-> 401, error |-> "Unauthorized. Invalid or missing API key."]

ServerError == [status |-> 500, error |-> "Internal server error"]

Init ==
    /\ apiKey \in ApiKeys
    /\ \E d \in Deployments : tz = d[1] /\ builder = d[2]
    /\ table \in {T \in SUBSET CardPool : Cardinality(T) <= MaxCards}
    /\ pc = "idle"
    /\ req = [endpoint |-> "none"]
    /\ loc = NoLoc
    /\ queries = <<>>
    /\ resp = NoResp
    /\ writes = 0
    /\ client = NoClient

(***************************************************************************)
(* Record Store writes (the application's create / edit / delete paths)    *)
(***************************************************************************)
InsertCard(card) ==
    /\ Cardinality(table) < MaxCards
    /\ \A c \in table : c.id # card.id
    /\ table' = table \cup {card}
    /\ writes < MaxWrites
    /\ writes' = writes + 1
    /\ UNCHANGED <<env, client, pc, req, loc, queries, resp>>

ToggleCompleted(card) ==
    /\ card \in table
    /\ table' = (table \ {card})
                  \cup {[card EXCEPT !.isCompleted = ~card.isCompleted]}
    /\ writes < MaxWrites
    /\ writes' = writes + 1
    /\ UNCHANGED <<env, client, pc, req, loc, queries, resp>>

DeleteCard(card) ==
    /\ card \in table
    /\ table' = table \ {card}
    /\ writes < MaxWrites
    /\ writes' = writes + 1
    /\ UNCHANGED <<env, client, pc, req, loc, queries, resp>>

(***************************************************************************)
(* Bearer-token check (summary 21-34, history 200-213, cards 19-32)        *)
(***************************************************************************)
\* a key extraction that skips the scheme test
ProvidedKeyAnyScheme(authHeader) ==
    IF authHeader # None THEN Some(Slice(authHeader[1], 7)) ELSE None

\* authHeader?.startsWith("Bearer ") ? authHeader.slice(7) : null
ProvidedKey(authHeader) ==
    IF authHeader # None /\ StartsWith(authHeader[1], BearerPrefix)
    THEN Some(Slice(authHeader[1], 7))
    ELSE None

\* a check that compares the keys even when none is configured
AuthRejectsUnconfigured(key, authHeader) ==
    ProvidedKey(authHeader) # key

\* if (apiKey) { ... if (providedKey !== apiKey) return 401 }
AuthRejects(key, authHeader) ==
    /\ key # None
    /\ key[1] # <<>>
    /\ ProvidedKey(authHeader) # key

(***************************************************************************)
(* Record Store reads                                                      *)
(***************************************************************************)
\* select().from(studyCards).where(and(gte(createdAt, start), lte(createdAt, end)))
SelectPeriod(rows, start, end) ==
    RowsOf({c \in rows : DateLE(start, c.createdAt) /\ DateLE(c.createdAt, end)})

\* an aggregation whose net cash flow is outflow minus inflow
AggregateFlowReversed(periodCards) ==
    LET totalExpenses  == SumCost(periodCards)
        completedCards == CompletedOf(periodCards)
        completedValue == SumCost(completedCards)
        totalRevenue   == completedValue
        cashInflow     == completedValue
        cashOutflow    == totalExpenses
    IN  [totalRevenue |-> totalRevenue,
         totalExpenses |-> totalExpenses,
         netProfit |-> totalRevenue - totalExpenses,
         cashInflow |-> cashInflow,
         cashOutflow |-> cashOutflow,
         netCashFlow |-> cashOutflow - cashInflow,
         expenseCategories |-> CategoryMap(periodCards),
         revenueCategories |-> CategoryMap(completedCards),
         periodItemCount |-> Len(periodCards),
         periodCompletedCount |-> Len(completedCards)]

\* what the summary handler computes from the period rows (lines 72-129)
Aggregate(periodCards) ==
    LET totalExpenses  == SumCost(periodCards)
        completedCards == CompletedOf(periodCards)
        completedValue == SumCost(completedCards)
        totalRevenue   == completedValue
        cashInflow     == completedValue
        cashOutflow    == totalExpenses
    IN  [totalRevenue |-> totalRevenue,
         totalExpenses |-> totalExpenses,
         netProfit |-> totalRevenue - totalExpenses,
         cashInflow |-> cashInflow,
         cashOutflow |-> cashOutflow,
         netCashFlow |-> cashInflow - cashOutflow,
         expenseCategories |-> CategoryMap(periodCards),
         revenueCategories |-> CategoryMap(completedCards),
         periodItemCount |-> Len(periodCards),
         periodCompletedCount |-> Len(completedCards)]

(***************************************************************************)
(* Finance summary endpoint (route.ts lines 20-182)                        *)
(***************************************************************************)
\* the query strings requests carry: <<periodType, year, month>>
SummaryParams ==
    { <<None, None, None>>,
      <<None, Some(<<"2", "0", "2", "4">>), Some(<<"3">>)>>,
      <<None, Some(<<"2", "0", "2", "3">>), Some(<<"1", "2">>)>>,
      <<None, Some(<<"2", "0", "2", "3">>), Some(<<"1", "3">>)>>,
      <<None, Some(<<"2", "0", "2", "4">>), Some(<<"0">>)>>,
      <<None, Some(<<"2", "0", "2", "4">>), Some(<<"x">>)>>,
      <<None, Some(<<"x">>), Some(<<"3">>)>>,
      <<Some("weekly"), Some(<<"2", "0", "2", "4">>), Some(<<"3">>)>>,
      <<Some("quarterly"), Some(<<"2", "0", "2", "4">>), Some(<<"2">>)>>,
      <<Some("quarterly"), Some(<<"2", "0", "2", "3">>), None>>,
      <<Some("yearly"), Some(<<"2", "0", "2", "4">>), None>>,
      <<Some("yearly"), Some(<<"2", "0", "2", "3">>), Some(<<"x">>)>> }

\* authentication, parameter parsing and the period boundaries: everything
\* up to the first read
SummaryRequest(authHeader, periodTypeP, yearP, monthP, now) ==
    /\ pc = "idle"
    /\ queries' = <<>>
    /\ req' = [endpoint |-> "summary", authHeader |-> authHeader,
               periodType |-> periodTypeP, year |-> yearP, month |-> monthP]
    /\ IF AuthRejects(apiKey, authHeader)
       THEN /\ resp' = Unauthorized
            /\ loc' = NoLoc
            /\ pc' = "done"
       ELSE LET periodType == Nullish(periodTypeP, "monthly")
                year       == ParseInt(Nullish(yearP, StringOf(now[1])))
                month      == ParseInt(Nullish(monthP,
                                               StringOf(now[2] + 1)))
                bounds     == PeriodBounds(periodType, year, month)
            IN  /\ resp' = NoResp
                /\ loc' = [periodType |-> periodType, year |-> year,
                           month |-> month, periodStart |-> bounds.start,
                           periodEnd |-> bounds.end]
                /\ pc' = "summaryFetch"
    /\ UNCHANGED <<env, client, table, writes>>

\* the period query and the aggregation over its rows; an Invalid Date
\* boundary throws while the query is being built
SummaryFetch ==
    /\ pc = "summaryFetch"
    /\ IF ~loc.periodStart.valid \/ ~loc.periodEnd.valid
       THEN /\ resp' = ServerError
            /\ pc' = "done"
            /\ UNCHANGED <<loc, queries>>
       ELSE LET periodCards == SelectPeriod(table, loc.periodStart,
                                            loc.periodEnd)
            IN  /\ queries' = Append(queries,
                       [kind |-> "period", start |-> loc.periodStart,
                        end |-> loc.periodEnd, rows |-> periodCards,
                        version |-> writes])
                /\ loc' = [periodCards |-> periodCards,
                           agg |-> Aggregate(periodCards)] @@ loc
                /\ pc' = "summaryCountAll"
                /\ UNCHANGED resp
    /\ UNCHANGED <<env, client, table, req, writes>>

\* a count that is restricted to the rows of the period
SummaryCountAllOfPeriod ==
    /\ pc = "summaryCountAll"
    /\ queries' = Append(queries, [kind |-> "countAll"])
    /\ loc' = [totalItems |-> Len(loc.periodCards)] @@ loc
    /\ pc' = "summaryCountCompleted"
    /\ UNCHANGED <<env, client, table, req, resp, writes>>

\* select count(*) from studyCards
SummaryCountAll ==
    /\ pc = "summaryCountAll"
    /\ queries' = Append(queries, [kind |-> "countAll"])
    /\ loc' = [totalItems |-> Cardinality(table)] @@ loc
    /\ pc' = "summaryCountCompleted"
    /\ UNCHANGED <<env, client, table, req, resp, writes>>

\* the response body of the summary endpoint (lines 144-174)
SummaryBody(l, totalCompleted) ==
    [status |-> 200,
     projectCode |-> "VLHOLDINGS",
     projectName |-> "VL Holdings",
     periodType |-> l.periodType,
     periodStart |-> IsoDate(l.periodStart, tz),
     periodEnd |-> IsoDate(l.periodEnd, tz),
     currency |-> "THB",
     totalRevenue |-> l.agg.totalRevenue,
     totalExpenses |-> l.agg.totalExpenses,
     netProfit |-> l.agg.netProfit,
     cashInflow |-> l.agg.cashInflow,
     cashOutflow |-> l.agg.cashOutflow,
     netCashFlow |-> l.agg.netCashFlow,
     revenueCategories |-> l.agg.revenueCategories,
     expenseCategories |-> l.agg.expenseCategories,
     metadata |-> [totalItems |-> l.totalItems,
                   totalCompleted |-> totalCompleted,
                   periodItemCount |-> l.agg.periodItemCount,
                   periodCompletedCount |-> l.agg.periodCompletedCount,
                   completionRate |->
                       CompletionRate(l.totalItems, totalCompleted)]]

\* select count(*) from studyCards where isCompleted, then the response
SummaryCountCompleted ==
    /\ pc = "summaryCountCompleted"
    /\ queries' = Append(queries, [kind |-> "countCompleted"])
    /\ resp' = SummaryBody(loc,
                   Cardinality({c \in table : c.isCompleted}))
    /\ pc' = "done"
    /\ UNCHANGED <<env, client, table, req, loc, writes>>

\* a catch block that answers a failed history read with the entries built
\* so far
ReadFailsPartial ==
    /\ pc \in {"summaryFetch", "summaryCountAll", "summaryCountCompleted",
               "historyFetch", "cardsFetch", "cardsCategories", "cardsCount"}
    /\ (pc = "summaryFetch" => loc.periodStart.valid /\ loc.periodEnd.valid)
    /\ queries' = Append(queries, [kind |-> "failed"])
    /\ resp' = IF pc = "historyFetch"
               THEN [status |-> 200, summaries |-> loc.summaries]
               ELSE ServerError
    /\ pc' = "done"
    /\ UNCHANGED <<env, client, table, req, loc, writes>>

\* a read that fails rejects its promise: the catch block answers 500
ReadFails ==
    /\ pc \in {"summaryFetch", "summaryCountAll", "summaryCountCompleted",
               "historyFetch", "cardsFetch", "cardsCategories", "cardsCount"}
    /\ (pc = "summaryFetch" => loc.periodStart.valid /\ loc.periodEnd.valid)
    /\ queries' = Append(queries, [kind |-> "failed"])
    /\ resp' = ServerError
    /\ pc' = "done"
    /\ UNCHANGED <<env, client, table, req, loc, writes>>

(***************************************************************************)
(* Monthly finance history endpoint (route.ts lines 199-295)               *)
(***************************************************************************)
MaxMonths == 24

MonthsParams == { None, Some(<<"2">>), Some(<<"0">>), Some(<<"-", "3">>),
                  Some(<<"3", "0">>), Some(<<"x">>) }

\* an entry whose completedCount is the number of all the rows
HistoryEntryCountsAll(periodCards, periodStart, periodEnd) ==
    LET totalExpenses  == SumCost(periodCards)
        completedValue == SumCost(CompletedOf(periodCards))
    IN  [periodType |-> "monthly",
         periodStart |-> IsoDate(periodStart, tz),
         periodEnd |-> IsoDate(periodEnd, tz),
         totalRevenue |-> completedValue,
         totalExpenses |-> totalExpenses,
         netProfit |-> completedValue - totalExpenses,
         cashInflow |-> completedValue,
         cashOutflow |-> totalExpenses,
         netCashFlow |-> completedValue - totalExpenses,
         itemCount |-> Len(periodCards),
         completedCount |-> Len(periodCards),
         expenseCategories |-> CategoryMap(periodCards)]

\* the entry pushed for one month (lines 240-278)
HistoryEntry(periodCards, periodStart, periodEnd) ==
    LET totalExpenses  == SumCost(periodCards)
        completedCards == CompletedOf(periodCards)
        completedValue == SumCost(completedCards)
        totalRevenue   == completedValue
    IN  [periodType |-> "monthly",
         periodStart |-> IsoDate(periodStart, tz),
         periodEnd |-> IsoDate(periodEnd, tz),
         totalRevenue |-> totalRevenue,
         totalExpenses |-> totalExpenses,
         netProfit |-> totalRevenue - totalExpenses,
         cashInflow |-> completedValue,
         cashOutflow |-> totalExpenses,
         netCashFlow |-> completedValue - totalExpenses,
         itemCount |-> Len(periodCards),
         completedCount |-> Len(completedCards),
         expenseCategories |-> CategoryMap(periodCards)]

\* the response body of the history endpoint (lines 281-287)
HistoryBody(summaries) ==
    [status |-> 200,
     projectCode |-> "VLHOLDINGS",
     projectName |-> "VL Holdings",
     currency |-> "THB",
     summaries |-> summaries]

\* a loop condition that lets i reach monthsCount
LoopRunsInclusive(i, monthsCount) == monthsCount # None /\ i <= monthsCount[1]

\* the loop condition i < monthsCount: false when monthsCount is NaN
LoopRuns(i, monthsCount) == monthsCount # None /\ i < monthsCount[1]

\* authentication and parameter parsing; a loop that does not run at all
\* answers at once
HistoryRequest(authHeader, monthsP, now) ==
    /\ pc = "idle"
    /\ req' = [endpoint |-> "history", authHeader |-> authHeader,
               months |-> monthsP]
    /\ queries' = <<>>
    /\ IF AuthRejects(apiKey, authHeader)
       THEN /\ resp' = Unauthorized
            /\ loc' = NoLoc
            /\ pc' = "done"
       ELSE LET monthsCount ==
                    MathMin(ParseInt(Nullish(monthsP, <<"1", "2">>)),
                            MaxMonths)
            IN  /\ loc' = [monthsCount |-> monthsCount, now |-> now,
                           i |-> 0, summaries |-> <<>>]
                /\ IF LoopRuns(0, monthsCount)
                   THEN resp' = NoResp /\ pc' = "historyFetch"
                   ELSE resp' = HistoryBody(<<>>) /\ pc' = "done"
    /\ UNCHANGED <<env, client, table, writes>>

\* one iteration: the month's query, its entry, and the response once the
\* loop is over
HistoryFetch ==
    /\ pc = "historyFetch"
    /\ LET bounds      == HistoryBounds(loc.now, loc.i)
           periodCards == SelectPeriod(table, bounds.start, bounds.end)
           summaries   == Append(loc.summaries,
                              HistoryEntry(periodCards, bounds.start,
                                           bounds.end))
       IN  /\ queries' = Append(queries,
                  [kind |-> "period", start |-> bounds.start,
                   end |-> bounds.end, rows |-> periodCards])
           /\ loc' = [loc EXCEPT !.i = loc.i + 1, !.summaries = summaries]
           /\ IF LoopRuns(loc.i + 1, loc.monthsCount)
              THEN UNCHANGED <<resp, pc>>
              ELSE resp' = HistoryBody(summaries) /\ pc' = "done"
    /\ UNCHANGED <<env, client, table, req, writes>>

(***************************************************************************)
(* Study cards endpoint (lines 18-89)                                      *)
(***************************************************************************)
DefaultLimit == 50

MaxLimit == 100

\* the query strings requests carry: <<category, search, limit>>
CardsParams ==
    { <<None, None, None>>,
      <<None, None, Some(<<"1">>)>>,
      <<None, None, Some(<<"0">>)>>,
      <<None, None, Some(<<"-", "1">>)>>,
      <<None, None, Some(<<"x">>)>>,
      <<None, None, Some(<<"2", "0", "0">>)>>,
      <<Some("Books"), None, None>>,
      <<Some(""), Some(<<>>), None>>,
      <<None, Some(<<"a">>), Some(<<"1">>)>> }

LowerCase(c) ==
    CASE c = "A" -> "a"
      [] c = "T" -> "t"
      [] OTHER   -> c

LowerText(s) == [i \in 1..Len(s) |-> LowerCase(s[i])]

\* text ILIKE %search%
ILike(text, search) ==
    \E k \in 0..(Len(text) - Len(search)) :
        SubSeq(LowerText(text), k + 1, k + Len(search)) = LowerText(search)

RECURSIVE RowsNewestFirst(_)
\* orderBy(desc(createdAt))
RowsNewestFirst(S) ==
    IF S = {} THEN <<>>
    ELSE LET c == CHOOSE x \in S : \A z \in S : DateLE(z.createdAt, x.createdAt)
         IN  <<c>> \o RowsNewestFirst(S \ {c})

\* the filtered, ordered and limited cards query (lines 40-57)
SelectCards(rows, category, search, limit) ==
    LET matching ==
            {c \in rows :
                /\ (category # None /\ category[1] # "")
                      => c.category = category
                /\ (search # None /\ search[1] # <<>>)
                      => (ILike(c.title, search[1])
                            \/ ILike(c.description, search[1]))}
        ordered == RowsNewestFirst(matching)
    IN  SubSeq(ordered, 1, IF limit < Len(ordered) THEN limit ELSE Len(ordered))

\* the category names of the rows, in the record store's sort order
NameOrder == <<"", "Books">>

\* the distinct non-null categories, ordered (lines 60-65)
SortedNames(S) ==
    SelectSeq(NameOrder, LAMBDA n : n \in S)

\* authentication and parameter parsing (lines 18-37)
CardsRequest(authHeader, categoryP, searchP, limitP) ==
    /\ pc = "idle"
    /\ req' = [endpoint |-> "cards", authHeader |-> authHeader,
               category |-> categoryP, search |-> searchP, limit |-> limitP]
    /\ queries' = <<>>
    /\ IF AuthRejects(apiKey, authHeader)
       THEN /\ resp' = Unauthorized
            /\ loc' = NoLoc
            /\ pc' = "done"
       ELSE /\ resp' = NoResp
            /\ loc' = [category |-> categoryP, search |-> searchP,
                       limit |-> MathMin(ParseInt(Nullish(limitP,
                                     StringOf(DefaultLimit))), MaxLimit)]
            /\ pc' = "cardsFetch"
    /\ UNCHANGED <<env, client, table, writes>>

\* the query builder puts a LIMIT clause into the statement
EmitsLimit(limit) ==
    /\ limit # None
    /\ IF builder = "truthy" THEN limit[1] # 0 ELSE limit[1] >= 0

\* the cards query: without a LIMIT clause every matching row is returned;
\* the record store rejects a negative LIMIT
CardsFetch ==
    /\ pc = "cardsFetch"
    /\ queries' = Append(queries, [kind |-> "cards"])
    /\ IF ~EmitsLimit(loc.limit)
       THEN /\ loc' = [cards |-> SelectCards(table, loc.category,
                                             loc.search, Cardinality(table))]
                        @@ loc
            /\ pc' = "cardsCategories"
            /\ UNCHANGED resp
       ELSE IF loc.limit[1] < 0
       THEN /\ resp' = ServerError
            /\ pc' = "done"
            /\ UNCHANGED loc
       ELSE /\ loc' = [cards |-> SelectCards(table, loc.category,
                                             loc.search, loc.limit[1])]
                        @@ loc
            /\ pc' = "cardsCategories"
            /\ UNCHANGED resp
    /\ UNCHANGED <<env, client, table, req, writes>>

\* the categories query; map((r) => r.category).filter(Boolean) drops the
\* empty name
CardsCategories ==
    /\ pc = "cardsCategories"
    /\ queries' = Append(queries, [kind |-> "categories"])
    /\ loc' = [categories |->
                  SelectSeq(SortedNames({c.category[1] :
                                c \in {x \in table : x.category # None}}),
                            LAMBDA n : n # "")]
                @@ loc
    /\ pc' = "cardsCount"
    /\ UNCHANGED <<env, client, table, req, resp, writes>>

\* a count step that removes the cards it has returned from the table
CardsCountConsumes ==
    /\ pc = "cardsCount"
    /\ queries' = Append(queries, [kind |-> "countAll"])
    /\ resp' = [status |-> 200, cards |-> loc.cards,
                categories |-> loc.categories,
                total |-> Cardinality(table)]
    /\ pc' = "done"
    /\ table' = {c \in table :
                    \A k \in 1..Len(loc.cards) : loc.cards[k] # c}
    /\ UNCHANGED <<env, client, req, loc, writes>>

\* the count query and the response (lines 72-81)
CardsCount ==
    /\ pc = "cardsCount"
    /\ queries' = Append(queries, [kind |-> "countAll"])
    /\ resp' = [status |-> 200, cards |-> loc.cards,
                categories |-> loc.categories,
                total |-> Cardinality(table)]
    /\ pc' = "done"
    /\ UNCHANGED <<env, client, table, req, loc, writes>>

(***************************************************************************)
(* The system                                                              *)
(***************************************************************************)
\* the response leaves the server and the handler's locals are dropped
Deliver ==
    /\ pc = "done"
    /\ pc' = "idle"
    /\ req' = [endpoint |-> "none"]
    /\ loc' = NoLoc
    /\ queries' = <<>>
    /\ resp' = NoResp
    /\ UNCHANGED <<env, client, table, writes>>

Next ==
    \/ \E card \in CardPool : InsertCard(card)
    \/ \E card \in table : ToggleCompleted(card)
    \/ \E card \in table : DeleteCard(card)
    \/ \E r \in RequestsOf(SummaryParams, <<None, None, None>>),
          now \in Clocks :
          SummaryRequest(r[1], r[2][1], r[2][2], r[2][3], now)
    \/ SummaryFetch
    \/ SummaryCountAll
    \/ SummaryCountCompleted
    \/ \E r \in RequestsOf(MonthsParams, None), now \in Clocks :
          HistoryRequest(r[1], r[2], now)
    \/ HistoryFetch
    \/ \E r \in RequestsOf(CardsParams, <<None, None, None>>) :
          CardsRequest(r[1], r[2][1], r[2][2], r[2][3])
    \/ CardsFetch
    \/ CardsCategories
    \/ CardsCount
    \/ ReadFails
    \/ Deliver

Spec == Init /\ [][Next]_vars

(***************************************************************************)
(* The Period Resolver on its own: the boundaries of an arbitrary period,  *)
(* and of an arbitrary month of the history window                         *)
(***************************************************************************)
ResolverYears == { 1999, 2000, 2023, 2024, 2025, 2100 }

ResolverMonths == 0..13

InitPeriod ==
    /\ apiKey = None
    /\ tz \in ServerOffsets
    /\ builder = "nonNegative"
    /\ table = {}
    /\ pc = "resolve"
    /\ req \in [endpoint : {"resolver"},
                periodType : {"monthly", "quarterly", "yearly"},
                year : ResolverYears, month : ResolverMonths]
    /\ loc = NoLoc
    /\ queries = <<>>
    /\ resp = NoResp
    /\ writes = 0
    /\ client = NoClient

ResolvePeriod ==
    /\ pc = "resolve"
    /\ LET bounds == PeriodBounds(req.periodType, Some(req.year),
                                  Some(req.month))
       IN  loc' = [periodStart |-> bounds.start, periodEnd |-> bounds.end]
    /\ pc' = "resolved"
    /\ UNCHANGED <<env, client, table, req, queries, resp, writes>>

NextPeriod == ResolvePeriod

SpecPeriod == InitPeriod /\ [][NextPeriod]_vars

(***************************************************************************)
(* A client that sends one request twice while the table and the clock     *)
(* stand still, and keeps the first response to compare the second with    *)
(***************************************************************************)
InitRepeat ==
    /\ apiKey \in ApiKeys
    /\ \E d \in Deployments : tz = d[1] /\ builder = d[2]
    /\ table \in {T \in SUBSET CardPool : Cardinality(T) <= MaxCards}
    /\ pc = "idle"
    /\ req = [endpoint |-> "none"]
    /\ loc = NoLoc
    /\ queries = <<>>
    /\ resp = NoResp
    /\ writes = 0
    /\ client \in { [now |-> c, table |-> table,
                      req |-> [endpoint |-> "none"], resp |-> NoResp,
                      failed |-> FALSE] : c \in Clocks }

\* the first request: any request of the three endpoints
FirstRequest ==
    /\ client.req.endpoint = "none"
    /\ \/ \E r \in RequestsOf(SummaryParams, <<None, None, None>>) :
              SummaryRequest(r[1], r[2][1], r[2][2], r[2][3], client.now)
       \/ \E r \in RequestsOf(MonthsParams, None) :
              HistoryRequest(r[1], r[2], client.now)
       \/ \E r \in RequestsOf(CardsParams, <<None, None, None>>) :
              CardsRequest(r[1], r[2][1], r[2][2], r[2][3])

\* the first response leaves the server and the client keeps it, with a
\* note of whether one of the request's reads had failed
KeepResponse ==
    /\ pc = "done"
    /\ client.req.endpoint = "none"
    /\ client' = [client EXCEPT
                     !.req = req, !.resp = resp,
                     !.failed = \E k \in 1..Len(queries) :
                                    queries[k].kind = "failed"]
    /\ pc' = "idle"
    /\ req' = [endpoint |-> "none"]
    /\ loc' = NoLoc
    /\ queries' = <<>>
    /\ resp' = NoResp
    /\ UNCHANGED <<env, table, writes>>

\* the same request again, at the same clock reading
RepeatRequest ==
    /\ client.req.endpoint # "none"
    /\ LET r == client.req
       IN  CASE r.endpoint = "summary" ->
                    SummaryRequest(r.authHeader, r.periodType, r.year,
                                   r.month, client.now)
             [] r.endpoint = "history" ->
                    HistoryRequest(r.authHeader, r.months, client.now)
             [] r.endpoint = "cards" ->
                    CardsRequest(r.authHeader, r.category, r.search, r.limit)

NextRepeat ==
    \/ FirstRequest
    \/ KeepResponse
    \/ RepeatRequest
    \/ SummaryFetch
    \/ SummaryCountAll
    \/ SummaryCountCompleted
    \/ HistoryFetch
    \/ CardsFetch
    \/ CardsCategories
    \/ CardsCount
    \/ ReadFails
    \/ Deliver

SpecRepeat == InitRepeat /\ [][NextRepeat]_vars

(***************************************************************************)
(* The history endpoint on its own, with the writes that can fall between  *)
(* its reads.  An awaited read settles: the promise resolves and the loop  *)
(* goes on, or it rejects and the catch block runs.                        *)
(***************************************************************************)
NextHistory ==
    \/ \E card \in CardPool : InsertCard(card)
    \/ \E card \in table : ToggleCompleted(card)
    \/ \E card \in table : DeleteCard(card)
    \/ \E r \in RequestsOf(MonthsParams, None), now \in Clocks :
          HistoryRequest(r[1], r[2], now)
    \/ HistoryFetch
    \/ ReadFails
    \/ Deliver

SpecHistory ==
    Init /\ [][NextHistory]_vars /\ WF_vars(ReadFails \/ HistoryFetch)

(***************************************************************************)
(* Properties                                                              *)
(***************************************************************************)
\* the request to endpoint ep has been answered with a 200
Answered(ep) == pc = "done" /\ req.endpoint = ep /\ resp.status = 200

\* the cost a row contributes, and the total over the rows from the k-th
\* on, of all rows or of the completed ones only
CostOf(card) == IF card.estimatedCost = None THEN 0 ELSE card.estimatedCost[1]

RECURSIVE TotalFrom(_, _, _)
TotalFrom(rows, k, completedOnly) ==
    IF k > Len(rows) THEN 0
    ELSE (IF completedOnly => rows[k].isCompleted THEN CostOf(rows[k]) ELSE 0)
           + TotalFrom(rows, k + 1, completedOnly)

RECURSIVE FieldTotal(_, _, _)
FieldTotal(entries, k, field) ==
    IF k > Len(entries) THEN 0
    ELSE entries[k][field] + FieldTotal(entries, k + 1, field)

ProfitIdentities(e) ==
    /\ e.netProfit = e.totalRevenue - e.totalExpenses
    /\ e.netCashFlow = e.cashInflow - e.cashOutflow
    /\ e.cashInflow = e.totalRevenue
    /\ e.cashOutflow = e.totalExpenses

\* C1: every 200 response of the summary endpoint and every entry of a
\* history response satisfies netProfit = totalRevenue - totalExpenses and
\* netCashFlow = cashInflow - cashOutflow, with cashInflow = totalRevenue
\* and cashOutflow = totalExpenses.
C1_ProfitIdentities ==
    /\ Answered("summary") => ProfitIdentities(resp)
    /\ Answered("history") =>
           \A k \in 1..Len(resp.summaries) :
               ProfitIdentities(resp.summaries[k])

C1_Witness ==
    /\ Answered("summary")
    /\ resp.totalRevenue = 50
    /\ resp.totalExpenses = 150
    /\ resp.netProfit = 0 - 100

TotalsOfRows(e, rows) ==
    /\ e.totalExpenses = TotalFrom(rows, 1, FALSE)
    /\ e.totalRevenue = TotalFrom(rows, 1, TRUE)

\* C2: totalExpenses is the sum of estimatedCost over all the rows fetched
\* for the period, an absent cost counting as 0, and totalRevenue the sum
\* over exactly the completed ones, in the summary response and in every
\* history entry.
C2_Totals ==
    /\ Answered("summary") => TotalsOfRows(resp, queries[1].rows)
    /\ Answered("history") =>
           \A k \in 1..Len(resp.summaries) :
               TotalsOfRows(resp.summaries[k], queries[k].rows)

\* the example of the specification: {cost 100, open}, {cost 50, completed}
C2_Witness ==
    /\ Answered("summary")
    /\ Len(queries[1].rows) = 2
    /\ \E a, b \in 1..2 :
          /\ queries[1].rows[a].estimatedCost = Some(100)
          /\ ~queries[1].rows[a].isCompleted
          /\ queries[1].rows[b].estimatedCost = Some(50)
          /\ queries[1].rows[b].isCompleted
    /\ resp.totalExpenses = 150
    /\ resp.totalRevenue = 50
    /\ resp.netProfit = 0 - 100

NameOf(card) == IF card.category = None THEN "Uncategorized" ELSE card.category[1]

CategoriesCover(cats, total, rows) ==
    /\ FieldTotal(cats, 1, "amount") = total
    /\ FieldTotal(cats, 1, "count") = Len(rows)
    /\ \A a, b \in 1..Len(cats) : cats[a].name = cats[b].name => a = b
    /\ \A k \in 1..Len(rows) :
           \E a \in 1..Len(cats) : cats[a].name = NameOf(rows[k])

\* C3: the amounts of expenseCategories sum to totalExpenses, their counts
\* sum to the number of period rows, and every category name of a period
\* row appears in exactly one entry.
C3_CategoriesCover ==
    /\ Answered("summary") =>
           /\ CategoriesCover(resp.expenseCategories, resp.totalExpenses,
                              queries[1].rows)
           /\ resp.metadata.periodItemCount = Len(queries[1].rows)
    /\ Answered("history") =>
           \A k \in 1..Len(resp.summaries) :
               /\ CategoriesCover(resp.summaries[k].expenseCategories,
                                  resp.summaries[k].totalExpenses,
                                  queries[k].rows)
               /\ resp.summaries[k].itemCount = Len(queries[k].rows)

\* two rows of one category in a history entry
C3_Witness ==
    /\ Answered("history")
    /\ \E k \in 1..Len(resp.summaries) :
          /\ resp.summaries[k].itemCount = 2
          /\ resp.summaries[k].expenseCategories =
                 <<[name |-> "Uncategorized", amount |-> 150, count |-> 2]>>

\* round(100 * a / b), halves rounding up, for b > 0
RoundedPercent(a, b) ==
    CHOOSE r \in 0..(100 * a + 1) :
        2 * b * r <= 200 * a + b /\ 200 * a + b < 2 * b * (r + 1)

\* C4: in every 200 response of the summary endpoint, completionRate is 0
\* when totalItems is 0 and otherwise round(100 * totalCompleted /
\* totalItems), and it is always an integer between 0 and 100.
C4_CompletionRate ==
    Answered("summary") =>
        LET m == resp.metadata
        IN  /\ m.completionRate =
                   (IF m.totalItems = 0 THEN 0
                    ELSE RoundedPercent(m.totalCompleted, m.totalItems))
            /\ m.completionRate \in 0..100

\* the request has been handed to one of the three endpoints
Received == req.endpoint \in {"summary", "history", "cards"}

KeyConfigured == apiKey # None /\ apiKey # Some(<<>>)

\* C5: with a key configured, a request passes authentication only if its
\* Authorization header is exactly "Bearer " followed by the key; any other
\* header, or none, is answered 401 with the one fixed message before any
\* read of the record store has been issued.
C5_BearerCheck ==
    (KeyConfigured /\ Received) =>
        IF req.authHeader = Some(<<"B", "e", "a", "r", "e", "r", " ">>
                                   \o apiKey[1])
        THEN resp.status # 401
        ELSE /\ pc = "done"
             /\ resp = [status |-> 401,
                        error |-> "Unauthorized. Invalid or missing API key."]
             /\ queries = <<>>

\* a header whose scheme is not spelled "Bearer " is turned away
C5_Witness ==
    /\ KeyConfigured
    /\ req.endpoint = "cards"
    /\ req.authHeader = Some(<<"b", "e", "a", "r", "e", "r", " ", "k", "1">>)
    /\ resp.status = 401
    /\ queries = <<>>

\* C6: with no key configured the bearer check is skipped: a request with
\* any Authorization header, or none, goes on to parameter parsing and data
\* access and is never answered 401.
C6_NoKeyNoCheck ==
    (~KeyConfigured /\ Received) =>
        /\ resp.status # 401
        /\ loc # NoLoc
        /\ pc = "done" => resp.status \in {200, 500}

\* a request with a wrong key is served
C6_Witness ==
    /\ apiKey = None
    /\ req.endpoint = "summary"
    /\ req.authHeader = Some(<<"B", "e", "a", "r", "e", "r", " ", "k", "1", "x">>)
    /\ resp.status = 200
    /\ Len(queries) = 3

\* the number a months text denotes (None: not a number)
NumberOf(text) ==
    CASE text = <<"2">>      -> Some(2)
      [] text = <<"0">>      -> Some(0)
      [] text = <<"-", "3">> -> Some(0 - 3)
      [] text = <<"3", "0">> -> Some(30)
      [] text = <<"1", "2">> -> Some(12)
      [] OTHER               -> None

\* C7: the history endpoint returns min(months, 24) entries, months being
\* 12 when the parameter is absent, never more than 24, and none when
\* months <= 0.
C7_HistoryLength ==
    Answered("history") =>
        LET months == NumberOf(IF req.months = None THEN <<"1", "2">>
                               ELSE req.months[1])
            n      == Len(resp.summaries)
        IN  /\ n <= 24
            /\ months # None =>
                  n = (IF months[1] <= 0 THEN 0
                       ELSE IF months[1] < 24 THEN months[1] ELSE 24)

\* thirty months are asked for and twenty-four returned
C7_Witness ==
    /\ Answered("history")
    /\ req.months = Some(<<"3", "0">>)
    /\ Len(resp.summaries) = 24

\* the first and the last instant, to the second, of the calendar month
\* with index n (year * 12 + month - 1)
IsMonth(q, n) ==
    /\ q.start.valid /\ q.end.valid
    /\ YearOfDay(q.start.day) * 12 + MonthOfDay(q.start.day) - 1 = n
    /\ YearOfDay(q.start.day - 1) * 12 + MonthOfDay(q.start.day - 1) - 1 = n - 1
    /\ q.start.ms = 0
    /\ YearOfDay(q.end.day) * 12 + MonthOfDay(q.end.day) - 1 = n
    /\ YearOfDay(q.end.day + 1) * 12 + MonthOfDay(q.end.day + 1) - 1 = n + 1
    /\ q.end.ms = 86399000

\* C8: history entries are ordered most recent first: entry 0 covers the
\* current calendar month and entry i the month exactly i months earlier,
\* the year stepping back at every January, no month skipped or repeated.
C8_HistoryOrder ==
    Answered("history") =>
        /\ Len(queries) = Len(resp.summaries)
        /\ \A k \in 1..Len(resp.summaries) :
               /\ IsMonth(queries[k], loc.now[1] * 12 + loc.now[2] - (k - 1))
               /\ resp.summaries[k].itemCount = Len(queries[k].rows)

\* twenty-four months back from January 2024: two year boundaries crossed
C8_Witness ==
    /\ Answered("history")
    /\ loc.now = <<2024, 0>>
    /\ Len(resp.summaries) = 24
    /\ YearOfDay(queries[24].start.day) = 2022
    /\ MonthOfDay(queries[24].start.day) = 2

\* the period of the resolver's input has been resolved
Resolved(periodType) ==
    /\ pc = "resolved"
    /\ req.periodType = periodType
    /\ req.month \in 1..12

\* day d is the first (last) day of calendar month m of year y
FirstDayOf(d, y, m) ==
    /\ YearOfDay(d) = y /\ MonthOfDay(d) = m
    /\ MonthOfDay(d - 1) # m

LastDayOf(d, y, m) ==
    /\ YearOfDay(d) = y /\ MonthOfDay(d) = m
    /\ MonthOfDay(d + 1) # m

\* C9: for periodType = quarterly, every year and every month in 1..12 the
\* interval starts on the first day of month (quarter-1)*3+1 and ends on
\* the last day of month quarter*3, the quarter being the one that contains
\* the requested month: exactly three calendar months.
C9_QuarterSpan ==
    Resolved("quarterly") =>
        LET quarter == CHOOSE q \in 1..4 : req.month \in (3 * q - 2)..(3 * q)
        IN  /\ loc.periodStart.valid /\ loc.periodEnd.valid
            /\ FirstDayOf(loc.periodStart.day, req.year, 3 * quarter - 2)
            /\ LastDayOf(loc.periodEnd.day, req.year, 3 * quarter)
            /\ MonthOfDay(loc.periodEnd.day)
                 - MonthOfDay(loc.periodStart.day) + 1 = 3

\* month 2 of the leap year 2024: 1 January to 31 March, 91 days
C9_Witness ==
    /\ Resolved("quarterly")
    /\ req.year = 2024 /\ req.month = 2
    /\ MonthOfDay(loc.periodStart.day) = 1
    /\ MonthOfDay(loc.periodEnd.day) = 3
    /\ loc.periodEnd.day - loc.periodStart.day + 1 = 91

\* the months of the year that belong to the period asked for
MonthsOfPeriod ==
    IF req.periodType = "yearly" THEN 1..12
    ELSE IF req.periodType = "quarterly"
    THEN LET q == CHOOSE k \in 1..4 : req.month \in (3 * k - 2)..(3 * k)
         IN  (3 * q - 2)..(3 * q)
    ELSE {req.month}

\* milliseconds of the day at which the timestamps of a day are probed
ProbeMs == {0, 43200000, 86399000, 86399500, 86399999}

\* C10: for every periodType, year and month in 1..12, periodStart <=
\* periodEnd, periodStart is the first instant of the first day of the
\* period and periodEnd the last instant of its last day, so that every
\* timestamp of the period's calendar days lies in [periodStart, periodEnd].
C10_PeriodCoversItsDays ==
    (pc = "resolved" /\ req.month \in 1..12) =>
        /\ loc.periodStart.valid /\ loc.periodEnd.valid
        /\ DateLE(loc.periodStart, loc.periodEnd)
        /\ loc.periodStart.ms = 0
        /\ \A d \in DaysBeforeYear(req.year)..(DaysBeforeYear(req.year + 1) - 1),
              ms \in ProbeMs :
               MonthOfDay(d) \in MonthsOfPeriod =>
                   /\ DateLE(loc.periodStart, [valid |-> TRUE, day |-> d, ms |-> ms])
                   /\ DateLE([valid |-> TRUE, day |-> d, ms |-> ms], loc.periodEnd)

\* the name a row is filed under when a null and an empty category both
\* count as "Uncategorized"
GroupNameOf(card) ==
    IF card.category = None \/ card.category = Some("")
    THEN "Uncategorized"
    ELSE card.category[1]

RECURSIVE FirstOccurrences(_)
\* the group names of the rows, each at the place of its first occurrence
FirstOccurrences(rows) ==
    IF rows = <<>> THEN <<>>
    ELSE LET front == FirstOccurrences(SubSeq(rows, 1, Len(rows) - 1))
             name  == GroupNameOf(rows[Len(rows)])
         IN  IF \E i \in 1..Len(front) : front[i] = name
             THEN front
             ELSE Append(front, name)

RECURSIVE GroupTotal(_, _, _)
\* the total cost of the rows of one group, from the k-th row on
GroupTotal(rows, k, name) ==
    IF k > Len(rows) THEN 0
    ELSE (IF GroupNameOf(rows[k]) = name THEN CostOf(rows[k]) ELSE 0)
           + GroupTotal(rows, k + 1, name)

GroupedInOrder(cats, rows) ==
    LET names == FirstOccurrences(rows)
    IN  /\ Len(cats) = Len(names)
        /\ \A a \in 1..Len(cats) :
               /\ cats[a].name = names[a]
               /\ cats[a].count =
                      Cardinality({k \in 1..Len(rows) :
                                      GroupNameOf(rows[k]) = names[a]})
               /\ cats[a].amount = GroupTotal(rows, 1, names[a])

\* C11: expenseCategories groups all the period rows by category, every row
\* whose category is null or empty falling under "Uncategorized", and lists
\* the groups in the order in which each category first occurs in the
\* fetched rows, in the summary response and in every history entry.
C11_GroupedInOrder ==
    /\ Answered("summary") =>
           GroupedInOrder(resp.expenseCategories, queries[1].rows)
    /\ Answered("history") =>
           \A k \in 1..Len(resp.summaries) :
               GroupedInOrder(resp.summaries[k].expenseCategories,
                              queries[k].rows)

\* the completed rows among the fetched ones, in the order fetched
DoneRows(rows) == SelectSeq(rows, LAMBDA c : c.isCompleted = TRUE)

\* the place of the first row of the given category
FirstRowOf(rows, name) ==
    CHOOSE k \in 1..Len(rows) :
        /\ NameOf(rows[k]) = name
        /\ \A j \in 1..(k - 1) : NameOf(rows[j]) # name

\* C12: revenueCategories is the grouping of expenseCategories applied to
\* the completed period rows only: one entry per category of a completed
\* row, in order of first occurrence; its amounts sum to totalRevenue, its
\* counts sum to periodCompletedCount, and every revenue category name also
\* appears in expenseCategories with a count at least as large.
C12_RevenueCategories ==
    Answered("summary") =>
        LET done == DoneRows(queries[1].rows)
            rev  == resp.revenueCategories
            exp  == resp.expenseCategories
        IN  /\ CategoriesCover(rev, resp.totalRevenue, done)
            /\ \A a \in 1..Len(rev) :
                   /\ \E k \in 1..Len(done) : NameOf(done[k]) = rev[a].name
                   /\ \A b \in (a + 1)..Len(rev) :
                          FirstRowOf(done, rev[a].name)
                            < FirstRowOf(done, rev[b].name)
            /\ FieldTotal(rev, 1, "amount") = resp.totalRevenue
            /\ FieldTotal(rev, 1, "count") = resp.metadata.periodCompletedCount
            /\ resp.metadata.periodCompletedCount = Len(done)
            /\ \A a \in 1..Len(rev) :
                   \E b \in 1..Len(exp) :
                       /\ exp[b].name = rev[a].name
                       /\ exp[b].count >= rev[a].count

\* one of two rows of a category is completed
C12_Witness ==
    /\ Answered("summary")
    /\ resp.expenseCategories =
           <<[name |-> "Uncategorized", amount |-> 150, count |-> 2]>>
    /\ resp.revenueCategories =
           <<[name |-> "Uncategorized", amount |-> 50, count |-> 1]>>
    /\ resp.metadata.periodCompletedCount = 1

\* a read of the request in progress has failed
ReadFailed == \E k \in 1..Len(queries) : queries[k].kind = "failed"

\* C13: when a record-store read fails during a report or history request
\* that passed authentication, the request ends with a 500 carrying only
\* the generic error message: the summaries built before a history failure
\* are not returned, and the failed read is the request's last read (it is
\* not retried).
C13_ReadFailureIs500 ==
    (req.endpoint \in {"summary", "history"} /\ ReadFailed) =>
        /\ pc = "done"
        /\ resp = [status |-> 500, error |-> "Internal server error"]
        /\ \A k \in 1..Len(queries) :
               queries[k].kind = "failed" => k = Len(queries)

\* the third month's read of a history request fails: two entries were built
C13_Witness ==
    /\ req.endpoint = "history"
    /\ Len(queries) = 3
    /\ queries[3].kind = "failed"
    /\ Len(loc.summaries) = 2
    /\ resp = [status |-> 500, error |-> "Internal server error"]

\* the text is a decimal number, with or without a sign
IsNumeral(text) ==
    /\ Len(text) > 0
    /\ LET from == IF text[1] = "-" \/ text[1] = "+" THEN 2 ELSE 1
       IN  /\ from <= Len(text)
           /\ \A i \in from..Len(text) :
                  \E d \in 0..9 : text[i] = Digits[d + 1]

\* a parameter that is present but does not parse as a number
Unparsable(p) == p # None /\ ~IsNumeral(p[1])

\* C14: a year, month or months parameter that is present but not parsable
\* as a number is silently defaulted: the request is answered 200 like the
\* one that omits the parameter, a history request with the 12 entries of
\* the default and a summary request for the current year or month, never
\* with an error response.
C14_UnparsableDefaults ==
    /\ (pc = "done" /\ req.endpoint = "history" /\ resp.status # 401
          /\ ~ReadFailed /\ Unparsable(req.months)) =>
           /\ resp.status = 200
           /\ Len(resp.summaries) = 12
    /\ (pc = "done" /\ req.endpoint = "summary" /\ resp.status # 401
          /\ ~ReadFailed
          /\ (Unparsable(req.year) \/ Unparsable(req.month))) =>
           resp.status = 200

\* the integer a year, month or limit text of the requests denotes
IntegerOf(text) ==
    CASE text = <<"2", "0", "2", "3">> -> 2023
      [] text = <<"2", "0", "2", "4">> -> 2024
      [] text = <<"0">>                -> 0
      [] text = <<"-", "1">>           -> 0 - 1
      [] text = <<"1">>                -> 1
      [] text = <<"2">>                -> 2
      [] text = <<"3">>                -> 3
      [] text = <<"1", "2">>           -> 12
      [] text = <<"1", "3">>           -> 13
      [] text = <<"2", "0", "0">>      -> 200

\* a report request for one month whose year and month are integers
MonthlyRequest ==
    /\ req.endpoint = "summary"
    /\ Nullish(req.periodType, "monthly") \notin {"yearly", "quarterly"}
    /\ req.year # None /\ IsNumeral(req.year[1])
    /\ req.month # None /\ IsNumeral(req.month[1])

\* C15: the report endpoint never rejects an integer month outside 1..12:
\* a monthly request is answered 200 unless a read fails, and its interval
\* is the calendar month reached by rolling month-1 months from January of
\* the year (13: January of the next year, 0: December of the year
\* before), with periodStart <= periodEnd.
C15_MonthRollsOver ==
    (pc = "done" /\ MonthlyRequest /\ resp.status # 401 /\ ~ReadFailed) =>
        LET n == IntegerOf(req.year[1]) * 12 + IntegerOf(req.month[1]) - 1
        IN  /\ resp.status = 200
            /\ IsMonth(queries[1], n)
            /\ DateLE(queries[1].start, queries[1].end)
            /\ resp.periodStart = IsoDate(queries[1].start, tz)
            /\ resp.periodEnd = IsoDate(queries[1].end, tz)

\* month 13 of 2023 is answered with January 2024
C15_Witness ==
    /\ Answered("summary")
    /\ req.year = Some(<<"2", "0", "2", "3">>)
    /\ req.month = Some(<<"1", "3">>)
    /\ YearOfDay(queries[1].start.day) = 2024
    /\ MonthOfDay(queries[1].start.day) = 1
    /\ MonthOfDay(queries[1].end.day) = 1
    /\ queries[1].end.day - queries[1].start.day = 30

\* C16: the three endpoints are read-only and keep no state: whatever the
\* request (authorized or not, succeeding or failing) the table stays what
\* it was before the request, nothing of a request is left once its
\* response is delivered, and a request repeated against the unchanged
\* table and clock is answered with the same response, unless a read of
\* one of the two failed.
C16_ReadOnlyRepeatable ==
    /\ table = client.table
    /\ pc = "idle" =>
           /\ req = [endpoint |-> "none"]
           /\ loc = [none |-> TRUE]
           /\ queries = <<>>
           /\ resp = [status |-> 0]
    /\ (pc = "done" /\ client.req = req /\ ~ReadFailed /\ ~client.failed) =>
           resp = client.resp

\* the summary of two cards is asked for a second time
C16_Witness ==
    /\ pc = "done"
    /\ client.req = req
    /\ req.endpoint = "summary"
    /\ resp.status = 200
    /\ resp.totalExpenses = 150
    /\ resp.metadata.totalItems = 2
    /\ client.resp = resp
    /\ Cardinality(table) = 2
    /\ table = client.table

\* the cards of the table that lie in the interval of a period read
InPeriod(q) ==
    {c \in table : DateLE(q.start, c.createdAt) /\ DateLE(c.createdAt, q.end)}

RECURSIVE CostOfSet(_)
CostOfSet(S) ==
    IF S = {} THEN 0
    ELSE LET c == CHOOSE x \in S : TRUE
         IN  CostOf(c) + CostOfSet(S \ {c})

\* every figure of the response is the one the table yields
FromOneTable(r, q) ==
    /\ r.metadata.totalItems = Cardinality(table)
    /\ r.metadata.totalCompleted = Cardinality({c \in table : c.isCompleted})
    /\ r.metadata.periodItemCount = Cardinality(InPeriod(q))
    /\ r.metadata.periodCompletedCount =
           Cardinality({c \in InPeriod(q) : c.isCompleted})
    /\ r.totalExpenses = CostOfSet(InPeriod(q))
    /\ r.totalRevenue = CostOfSet({c \in InPeriod(q) : c.isCompleted})
    /\ r.metadata.periodItemCount <= r.metadata.totalItems
    /\ r.metadata.periodCompletedCount <= r.metadata.totalCompleted
    /\ r.metadata.totalCompleted <= r.metadata.totalItems
    /\ r.metadata.completionRate \in 0..100

\* C17: the period fetch and the two global counts of the report endpoint
\* are separate reads: when no write has been applied since the first of
\* them, every figure of the response derives from the one table state;
\* a write between the reads can make the response combine figures that no
\* single table state produces (the state C17_Witness describes).
C17_OneTableUnlessWritten ==
    (Answered("summary") /\ queries[1].version = writes) =>
        FromOneTable(resp, queries[1])

\* a card read by the period fetch is removed before the count: the
\* response reports more items in the period than in the whole table
C17_Witness ==
    /\ Answered("summary")
    /\ queries[1].version < writes
    /\ resp.metadata.periodItemCount > resp.metadata.totalItems
    /\ ~FromOneTable(resp, queries[1])

\* the limit a cards request asks for: 50 when the parameter is absent
LimitAsked ==
    IF req.limit = None THEN 50 ELSE IntegerOf(req.limit[1])

\* C18: the cards endpoint answers every limit value with a 200 (unless a
\* read fails) whose cards list is ordered newest first by createdAt and
\* has at most min(limit, 100) cards, limit being 50 when the parameter is
\* absent, and whose total is the size of the whole table whatever the
\* category and search filters.
C18_CardsLimit ==
    (pc = "done" /\ req.endpoint = "cards" /\ resp.status # 401
       /\ ~ReadFailed) =>
        /\ resp.status = 200
        /\ \A a, b \in 1..Len(resp.cards) :
               a < b => DateLE(resp.cards[b].createdAt,
                               resp.cards[a].createdAt)
        /\ (req.limit = None \/ IsNumeral(req.limit[1])) =>
               Len(resp.cards) <= (IF LimitAsked < 100 THEN LimitAsked
                                   ELSE 100)
        /\ writes = 0 => resp.total = Cardinality(table)

\* the calendar month (year * 12 + month - 1) a timestamp belongs to
MonthIndexOf(date) == YearOfDay(date.day) * 12 + MonthOfDay(date.day) - 1

\* the cards of the table created in the calendar months of the history
\* window: the clock's month and the months before it, one per entry
CardsInWindow ==
    LET last == loc.now[1] * 12 + loc.now[2]
    IN  {c \in table :
            MonthIndexOf(c.createdAt)
                \in (last - Len(resp.summaries) + 1)..last}

\* C19: the monthly intervals tile the timeline: against a table that does
\* not change, every card created in the months of the history window is
\* in the rows of exactly one entry's read, and the itemCount values of
\* the entries sum to the number of cards in the window.
C19_MonthsTile ==
    (Answered("history") /\ writes = 0) =>
        /\ \A c \in CardsInWindow :
               Cardinality({k \in 1..Len(queries) :
                               \E j \in 1..Len(queries[k].rows) :
                                   queries[k].rows[j] = c}) = 1
        /\ FieldTotal(resp.summaries, 1, "itemCount")
             = Cardinality(CardsInWindow)

\* the response of the report endpoint to periodType=monthly, year, month,
\* all of its reads served from the table as it stands
ReportOf(year, month) ==
    LET bounds == PeriodBounds("monthly", ParseInt(StringOf(year)),
                               ParseInt(StringOf(month)))
        cards  == SelectPeriod(table, bounds.start, bounds.end)
    IN  SummaryBody([periodType |-> "monthly",
                     periodStart |-> bounds.start,
                     periodEnd |-> bounds.end,
                     agg |-> Aggregate(cards),
                     totalItems |-> Cardinality(table)],
                    Cardinality({c \in table : c.isCompleted}))

SameFigures(entry, report) ==
    /\ report.status = 200
    /\ entry.periodType = report.periodType
    /\ entry.periodStart = report.periodStart
    /\ entry.periodEnd = report.periodEnd
    /\ entry.totalRevenue = report.totalRevenue
    /\ entry.totalExpenses = report.totalExpenses
    /\ entry.netProfit = report.netProfit
    /\ entry.cashInflow = report.cashInflow
    /\ entry.cashOutflow = report.cashOutflow
    /\ entry.netCashFlow = report.netCashFlow
    /\ entry.expenseCategories = report.expenseCategories
    /\ entry.itemCount = report.metadata.periodItemCount
    /\ entry.completedCount = report.metadata.periodCompletedCount

\* C20: against the same table and clock, entry i of the history equals
\* the report endpoint's response for periodType=monthly with the year and
\* month of that entry (the month i months before the clock's) on every
\* field they share, itemCount and completedCount being the report's
\* periodItemCount and periodCompletedCount.
C20_HistoryMatchesReport ==
    (Answered("history") /\ writes = 0) =>
        \A k \in 1..Len(resp.summaries) :
            LET n == loc.now[1] * 12 + loc.now[2] - (k - 1)
            IN  SameFigures(resp.summaries[k],
                            ReportOf(n \div 12, (n % 12) + 1))

\* the entry of March 2024 with two cards, one of them completed
C20_Witness ==
    /\ Answered("history")
    /\ writes = 0
    /\ loc.now = <<2024, 11>>
    /\ Len(resp.summaries) = 12
    /\ resp.summaries[10].itemCount = 2
    /\ resp.summaries[10].completedCount = 1
    /\ resp.summaries[10].totalExpenses = 150
    /\ SameFigures(resp.summaries[10], ReportOf(2024, 3))

\* the reads of the request in progress that returned rows
PeriodReads == SelectSeq(queries, LAMBDA q : q.kind = "period")

\* C21: the history endpoint issues one record-store query per entry, one
\* after the other and in entry order (the k-th read is that of the month
\* k-1 months before the clock's and fills the k-th entry), never more
\* than 24 of them whatever the months parameter, and the request always
\* ends, with a 200 or with a 500.
C21_OneQueryPerEntry ==
    /\ [](req.endpoint = "history" =>
            /\ Len(queries) <= 24
            /\ resp.status = 401 => queries = <<>>
            /\ resp.status # 401 =>
                   /\ Len(PeriodReads) = Len(loc.summaries)
                   /\ \A k \in 1..Len(PeriodReads) :
                          /\ queries[k] = PeriodReads[k]
                          /\ IsMonth(queries[k],
                                     loc.now[1] * 12 + loc.now[2] - (k - 1))
                          /\ loc.summaries[k].itemCount
                               = Len(queries[k].rows)
            /\ resp.status = 200 =>
                   /\ Len(queries) = Len(resp.summaries)
                   /\ resp.summaries = loc.summaries
            /\ pc = "done" => resp.status \in {200, 401, 500})
    /\ (pc = "historyFetch") ~> (pc = "done" /\ resp.status \in {200, 500})

\* thirty months asked for: the 24th read is the last and the request ends
C21_Witness ==
    /\ Answered("history")
    /\ req.months = Some(<<"3", "0">>)
    /\ Len(queries) = 24
    /\ Len(PeriodReads) = 24
    /\ writes = 1

\* every cost of the rows is absent or non-negative
NonNegativeCosts(rows) ==
    \A k \in 1..Len(rows) :
        rows[k].estimatedCost = None \/ rows[k].estimatedCost[1] >= 0

\* every row with a non-zero cost is completed
CostlyRowsCompleted(rows) ==
    \A k \in 1..Len(rows) : CostOf(rows[k]) # 0 => rows[k].isCompleted

\* the figures f computed from rows never show a profit, and break even
\* exactly when every row with a non-zero cost is completed
NeverInProfit(f, rows) ==
    /\ f.totalRevenue <= f.totalExpenses
    /\ f.netProfit <= 0
    /\ f.netCashFlow <= 0
    /\ (f.totalRevenue = f.totalExpenses) <=> CostlyRowsCompleted(rows)
    /\ (f.netProfit = 0) <=> CostlyRowsCompleted(rows)
    /\ (f.netCashFlow = 0) <=> CostlyRowsCompleted(rows)

\* C22: when every estimatedCost of the period rows is absent or
\* non-negative, totalRevenue <= totalExpenses, so netProfit <= 0 and
\* netCashFlow <= 0 in every report and in every history entry, with
\* equality exactly when every row with a non-zero cost is completed.
C22_NeverInProfit ==
    /\ Answered("summary") =>
           (NonNegativeCosts(queries[1].rows) =>
                NeverInProfit(resp, queries[1].rows))
    /\ Answered("history") =>
           \A k \in 1..Len(resp.summaries) :
               NonNegativeCosts(queries[k].rows) =>
                   NeverInProfit(resp.summaries[k], queries[k].rows)

\* a history entry of two rows, the completed one of cost 50 and an open
\* one of cost 100: a loss of 100
C22_Witness ==
    /\ Answered("history")
    /\ \E k \in 1..Len(resp.summaries) :
           /\ Len(queries[k].rows) = 2
           /\ NonNegativeCosts(queries[k].rows)
           /\ ~CostlyRowsCompleted(queries[k].rows)
           /\ resp.summaries[k].totalRevenue = 50
           /\ resp.summaries[k].totalExpenses = 150
           /\ resp.summaries[k].netProfit = 0 - 100
           /\ resp.summaries[k].netCashFlow = 0 - 100

\* the calendar date, in the server's local time, of a Date
CalendarDate(date) ==
    LET y == YearOfDay(date.day)
        m == MonthOfDay(date.day)
    IN  <<y, m, date.day - Stamp(y, m, 1, 0).day + 1>>

\* the strings of the figures f are the calendar dates of the boundaries
\* of the read q, the first day of a month and the last day of a month
CalendarDatesOf(f, q) ==
    /\ f.periodStart = CalendarDate(q.start)
    /\ f.periodStart[3] = 1
    /\ f.periodEnd = CalendarDate(q.end)
    /\ LastDayOf(q.end.day, f.periodEnd[1], f.periodEnd[2])

\* C23: the periodStart and periodEnd strings of every report and of every
\* history entry are the calendar dates of the first and of the last day of
\* the resolved period (2024-03-01 and 2024-03-31 for monthly March 2024),
\* whatever the server's timezone offset.
C23_CalendarDates ==
    /\ Answered("summary") => CalendarDatesOf(resp, queries[1])
    /\ Answered("history") =>
           \A k \in 1..Len(resp.summaries) :
               CalendarDatesOf(resp.summaries[k], queries[k])

====
